---- MODULE Spec2Model ----
(***************************************************************************)
(* A model of react-simple-router (src/index.js): the useSimpleRouter hook *)
(* (route segments and query parameters derived from window.location, the  *)
(* pushState / replaceState mutators, the hashchange / popstate            *)
(* subscription) and its Route component.                                  *)
(*                                                                         *)
(* Strings are sequences of one-character strings, so that the parsing of  *)
(* the URL (split, substring, the query-string decoder) is computed and    *)
(* not assumed.  A JavaScript object used as a map is a function whose     *)
(* domain is its set of own property names.                                *)
(***************************************************************************)
EXTENDS Integers, Sequences, FiniteSets, TLC

VARIABLES
    entries,    \* the session history: the URL (href) of each entry
    idx,        \* the position of the current entry in entries
    listeners,  \* window's listener lists, one per event class
    hashTasks,  \* number of queued tasks that will fire hashchange
    phase,      \* per store: "unmounted", "rendered" (first render committed,
                \* effect not yet run) or "mounted" (effect has run)
    gen,        \* per store: how many times the component has been mounted
    context,    \* per store: the committed value of useState([])  (line 16)
    state,      \* per store: the committed value of useState({})  (line 17)
    queue,      \* per store: state updates enqueued and not yet rendered
    last,       \* the last operation performed and whether a hashchange was
                \* fired since (observation only)
    prevState,  \* the parameter map `last` started from (observation only)
    ops,        \* number of navigation / mutator operations so far
    tree,       \* the element tree the application renders
    output      \* what it rendered to, the warnings logged, and the context
                \* (segments) the Route components read

vars == <<entries, idx, listeners, hashTasks, phase, gen, context, state,
          queue, last, prevState, ops, tree, output>>

----------------------------------------------------------------------------
(* Bounds of the model.                                                    *)

MaxOps == 3
MaxMounts == 2
MaxPending == 4
MaxHashTasks == 1
MaxUrlLen == 4
MaxDepth == 3
MaxChain == 3

----------------------------------------------------------------------------
(* Strings.                                                                *)

\* String.prototype.indexOf for a one-character needle, 1-based; 0 = absent.
IndexOf(s, c) ==
    IF \E i \in 1..Len(s) : s[i] = c
    THEN CHOOSE i \in 1..Len(s) : s[i] = c /\ \A j \in 1..(i - 1) : s[j] # c
    ELSE 0

\* s.substring(1)
Substring1(s) == IF Len(s) = 0 THEN <<>> ELSE SubSeq(s, 2, Len(s))

\* s.split(c): the pieces between the occurrences of c; "" gives [""].
RECURSIVE Split(_, _)
Split(s, c) ==
    LET i == IndexOf(s, c)
    IN  IF i = 0 THEN <<s>>
        ELSE <<SubSeq(s, 1, i - 1)>> \o Split(SubSeq(s, i + 1, Len(s)), c)

\* A variant of FilterBoolean that drops nothing (the filter forgotten).
KeepAll(arr) == arr

\* Boolean(x) for a string x: the empty string is the only falsy string.
TruthyString(s) == Len(s) > 0

\* array.filter(Boolean) on an array of strings
FilterBoolean(arr) == SelectSeq(arr, TruthyString)

RECURSIVE Concat(_)
Concat(ss) == IF Len(ss) = 0 THEN <<>> ELSE Head(ss) \o Concat(Tail(ss))

----------------------------------------------------------------------------
(* The URL primitives the hook consumes (WHATWG URL).                      *)

\* new URL(href): the path, the query (between the first "?" and the "#")
\* and the fragment (after the first "#").
ParseURL(href) ==
    LET h == IndexOf(href, "#")
        pre == IF h = 0 THEN href ELSE SubSeq(href, 1, h - 1)
        q == IndexOf(pre, "?")
    IN  [path |-> IF q = 0 THEN pre ELSE SubSeq(pre, 1, q - 1),
         hasQuery |-> q # 0,
         query |-> IF q = 0 THEN <<>> ELSE SubSeq(pre, q + 1, Len(pre)),
         hasFragment |-> h # 0,
         fragment |-> IF h = 0 THEN <<>> ELSE SubSeq(href, h + 1, Len(href))]

\* url.href
SerializeURL(u) ==
    u.path \o (IF u.hasQuery THEN <<"?">> \o u.query ELSE <<>>)
           \o (IF u.hasFragment THEN <<"#">> \o u.fragment ELSE <<>>)

\* window.location.hash: "" when the fragment is absent or empty.
LocationHash(href) ==
    LET u == ParseURL(href)
    IN  IF u.fragment = <<>> THEN <<>> ELSE <<"#">> \o u.fragment

\* A variant of LocationSearch that takes as query string whatever follows the
\* first "?" of the URL, inside the fragment too.
SearchAnywhere(href) ==
    IF IndexOf(href, "?") = 0 \/ IndexOf(href, "?") = Len(href) THEN <<>>
    ELSE SubSeq(href, IndexOf(href, "?"), Len(href))

\* window.location.search: "" when the query is absent or empty.
LocationSearch(href) ==
    LET u == ParseURL(href)
    IN  IF u.query = <<>> THEN <<>> ELSE <<"?">> \o u.query

\* The percent-escapes of the characters of the model's alphabet that the
\* application/x-www-form-urlencoded serializer escapes.
Escapes ==
    <<  <<"&", <<"%", "2", "6">> >>,
        <<"=", <<"%", "3", "D">> >>,
        <<"%", <<"%", "2", "5">> >>,
        <<"+", <<"%", "2", "B">> >>,
        <<"/", <<"%", "2", "F">> >>,
        <<"?", <<"%", "3", "F">> >>,
        <<"#", <<"%", "2", "3">> >>  >>

\* urlencoded byte serializer, one character: space becomes "+".
EncodeChar(c) ==
    IF c = " " THEN <<"+">>
    ELSE IF \E i \in 1..Len(Escapes) : Escapes[i][1] = c
         THEN Escapes[CHOOSE i \in 1..Len(Escapes) : Escapes[i][1] = c][2]
         ELSE <<c>>

RECURSIVE Encode(_)
Encode(s) == IF Len(s) = 0 THEN <<>> ELSE EncodeChar(Head(s)) \o Encode(Tail(s))

\* urlencoded decoding of a name or value: "+" is a space and a "%" followed
\* by a known escape is its character; any other "%" is kept as it is.
RECURSIVE Decode(_)
Decode(s) ==
    IF Len(s) = 0 THEN <<>>
    ELSE IF Head(s) = "+" THEN <<" ">> \o Decode(Tail(s))
    ELSE IF /\ Head(s) = "%"
            /\ Len(s) >= 3
            /\ \E i \in 1..Len(Escapes) : Escapes[i][2] = SubSeq(s, 1, 3)
         THEN <<Escapes[CHOOSE i \in 1..Len(Escapes) :
                            Escapes[i][2] = SubSeq(s, 1, 3)][1]>>
              \o Decode(SubSeq(s, 4, Len(s)))
    ELSE <<Head(s)>> \o Decode(Tail(s))

\* One "&"-separated piece as a (name, value) pair: split at the first "=".
ParsePair(piece) ==
    LET e == IndexOf(piece, "=")
    IN  IF e = 0 THEN <<Decode(piece), <<>> >>
        ELSE <<Decode(SubSeq(piece, 1, e - 1)),
               Decode(SubSeq(piece, e + 1, Len(piece)))>>

RECURSIVE ParsePieces(_)
ParsePieces(pieces) ==
    IF Len(pieces) = 0 THEN <<>>
    ELSE IF Head(pieces) = <<>> THEN ParsePieces(Tail(pieces))
    ELSE <<ParsePair(Head(pieces))>> \o ParsePieces(Tail(pieces))

\* new URLSearchParams(q): the list of (name, value) pairs of q, in order;
\* empty pieces are skipped.
URLSearchParams(q) == ParsePieces(Split(q, "&"))

RECURSIVE DropName(_, _)
DropName(list, k) ==
    IF Len(list) = 0 THEN <<>>
    ELSE IF Head(list)[1] = k THEN DropName(Tail(list), k)
    ELSE <<Head(list)>> \o DropName(Tail(list), k)

\* searchParams.set(k, v): the first pair named k gets value v and the other
\* pairs named k are removed; with no pair named k, (k, v) is appended.
RECURSIVE SearchParamsSet(_, _, _)
SearchParamsSet(list, k, v) ==
    IF Len(list) = 0 THEN << <<k, v>> >>
    ELSE IF Head(list)[1] = k THEN << <<k, v>> >> \o DropName(Tail(list), k)
    ELSE <<Head(list)>> \o SearchParamsSet(Tail(list), k, v)

\* searchParams.toString()
RECURSIVE SerializeParams(_)
SerializeParams(list) ==
    IF Len(list) = 0 THEN <<>>
    ELSE Encode(Head(list)[1]) \o <<"=">> \o Encode(Head(list)[2])
         \o (IF Len(list) = 1 THEN <<>> ELSE <<"&">>)
         \o SerializeParams(Tail(list))

\* A variant of UrlWithParam that writes key=value as the whole query.
UrlOnlyParam(href, key, value) ==
    LET u == ParseURL(href)
    IN  SerializeURL([u EXCEPT !.hasQuery = TRUE,
                               !.query = SerializeParams(<< <<key, value>> >>)])

\* const url = new URL(href); url.searchParams.set(key, value); url.href
UrlWithParam(href, key, value) ==
    LET u == ParseURL(href)
        q == SerializeParams(SearchParamsSet(URLSearchParams(u.query), key, value))
    IN  SerializeURL([u EXCEPT !.hasQuery = TRUE, !.query = q])

----------------------------------------------------------------------------
(* JavaScript objects used as maps.                                        *)

EmptyObject == [k \in {} |-> <<>>]

\* The property name "__proto__".
ProtoKey == <<"_", "_", "p", "r", "o", "t", "o", "_", "_">>

\* { ...obj, [key]: value }: an own data property is defined, whatever the
\* name (CreateDataProperty).
ObjectDefine(obj, key, value) ==
    [x \in (DOMAIN obj) \cup {key} |-> IF x = key THEN value ELSE obj[x]]

\* obj[key] = value on an ordinary object (an assignment, [[Set]]): the name
\* "__proto__" reaches the accessor of Object.prototype, whose setter ignores
\* a value that is not an object, so no own property is created.
ObjectAssign(obj, key, value) ==
    IF key = ProtoKey THEN obj ELSE ObjectDefine(obj, key, value)

\* for (const [key, value] of queryParams.entries()) newState[key] = value
RECURSIVE AssignEntries(_, _)
AssignEntries(list, obj) ==
    IF Len(list) = 0 THEN obj
    ELSE AssignEntries(Tail(list), ObjectAssign(obj, Head(list)[1], Head(list)[2]))

----------------------------------------------------------------------------
(* The hook: handleHashChange and the state updates it enqueues.           *)

\* routeSegments of handleHashChange
RouteSegments(href) ==
    FilterBoolean(Split(Substring1(LocationHash(href)), "/"))

\* the parameter map handleHashChange passes to setState
QueryState(href) ==
    LET queryString == Substring1(LocationSearch(href))
    IN  IF TruthyString(queryString)
        THEN AssignEntries(URLSearchParams(queryString), EmptyObject)
        ELSE EmptyObject

\* A pending state update: setContext(v), setState(v), or the functional
\* setState(prev => ({ ...prev, [key]: value })).
SetContext(v) == [hook |-> "context", kind |-> "set", key |-> <<>>, value |-> v]
SetState(v) == [hook |-> "state", kind |-> "set", key |-> <<>>, value |-> v]
MergeState(k, v) == [hook |-> "state", kind |-> "merge", key |-> k, value |-> v]

\* handleHashChange(): setContext(routeSegments), then setState(...)
HandleHashChange(href) == <<SetContext(RouteSegments(href)), SetState(QueryState(href))>>

\* The value of the `state` hook once the updates of q are applied to st.
RECURSIVE FlushState(_, _)
FlushState(st, q) ==
    IF Len(q) = 0 THEN st
    ELSE LET u == Head(q)
         IN  FlushState(IF u.hook # "state" THEN st
                        ELSE IF u.kind = "set" THEN u.value
                        ELSE ObjectDefine(st, u.key, u.value),
                        Tail(q))

\* A variant of FlushContext in which a recompute adds the segments it read
\* to the segments already held.
RECURSIVE FlushContextAppend(_, _)
FlushContextAppend(ctx, q) ==
    IF Len(q) = 0 THEN ctx
    ELSE FlushContextAppend(IF Head(q).hook = "context" THEN ctx \o Head(q).value
                            ELSE ctx,
                            Tail(q))

\* The value of the `context` hook once the updates of q are applied to ctx.
RECURSIVE FlushContext(_, _)
FlushContext(ctx, q) ==
    IF Len(q) = 0 THEN ctx
    ELSE FlushContext(IF Head(q).hook = "context" THEN Head(q).value ELSE ctx,
                      Tail(q))

----------------------------------------------------------------------------
(* window: the current URL, the listener lists and event dispatch.         *)

Stores == {1, 2}

Href == entries[idx]

\* The listener of store s: handleHashChange is memoised with useCallback and
\* no dependencies, so it is one function per mounted instance.
Handler(s) == <<s, gen[s]>>

\* addEventListener: a callback already in the list is not added again.
AddEventListener(list, h) ==
    IF \E i \in 1..Len(list) : list[i] = h THEN list ELSE Append(list, h)

\* removeEventListener
RemoveEventListener(list, h) == SelectSeq(list, LAMBDA x : x # h)

\* A listener still updates a store when it belongs to the instance of the
\* store that is mounted now; a setState of an unmounted instance does nothing.
Live(h) == phase[h[1]] = "mounted" /\ gen[h[1]] = h[2]

\* The queues after the event is dispatched to every listener of the list,
\* in order; each call of handleHashChange reads the URL href.
RECURSIVE Dispatch(_, _, _)
Dispatch(list, href, q) ==
    IF Len(list) = 0 THEN q
    ELSE LET h == Head(list)
         IN  Dispatch(Tail(list), href,
                      IF Live(h)
                      THEN [q EXCEPT ![h[1]] = @ \o HandleHashChange(href)]
                      ELSE q)

\* How many listeners of the list a store's queue must have room for.
Calls(list, s) == Cardinality({i \in 1..Len(list) : list[i][1] = s})

Room(list) == \A s \in Stores : Len(queue[s]) + 2 * Calls(list, s) <= MaxPending

\* The record of an operation that leaves the history at position `at` with
\* `len` entries, performed after the operation recorded in `last`.
Op(name, s, k, v, at, len) ==
    [op |-> name, store |-> s, key |-> k, value |-> v, at |-> at, len |-> len,
     prev |-> last.op, prevAt |-> last.at, prevLen |-> last.len, fired |-> FALSE]

----------------------------------------------------------------------------
(* The component's life cycle (React).                                     *)

\* First render of a new instance: useState([]) and useState({}) give the
\* initial values; the effect has not run yet.
MountRender(s) ==
    /\ phase[s] = "unmounted"
    /\ gen[s] < MaxMounts
    /\ phase' = [phase EXCEPT ![s] = "rendered"]
    /\ gen' = [gen EXCEPT ![s] = @ + 1]
    /\ context' = [context EXCEPT ![s] = <<>>]
    /\ state' = [state EXCEPT ![s] = EmptyObject]
    /\ queue' = [queue EXCEPT ![s] = <<>>]
    /\ last' = Op("mountRender", s, <<>>, <<>>, idx, Len(entries))
    /\ UNCHANGED <<entries, idx, listeners, hashTasks, prevState, ops, tree, output>>

\* The effect: handleHashChange(), then the two addEventListener calls.
MountEffect(s) ==
    /\ phase[s] = "rendered"
    /\ phase' = [phase EXCEPT ![s] = "mounted"]
    /\ queue' = [queue EXCEPT ![s] = @ \o HandleHashChange(Href)]
    /\ listeners' = [hashchange |-> AddEventListener(listeners.hashchange, Handler(s)),
                     popstate |-> AddEventListener(listeners.popstate, Handler(s))]
    /\ last' = Op("mountEffect", s, <<>>, <<>>, idx, Len(entries))
    /\ UNCHANGED <<entries, idx, hashTasks, gen, context, state, prevState, ops,
                   tree, output>>

\* A variant of Cleanup that leaves the popstate listener attached.
CleanupHashOnly(s) ==
    [hashchange |-> RemoveEventListener(listeners.hashchange, Handler(s)),
     popstate |-> listeners.popstate]

\* The effect's cleanup: the two removeEventListener calls.
Cleanup(s) ==
    [hashchange |-> RemoveEventListener(listeners.hashchange, Handler(s)),
     popstate |-> RemoveEventListener(listeners.popstate, Handler(s))]

\* The component unmounts: the cleanup runs if the effect had run, and the
\* updates still pending are dropped with the instance.
Unmount(s) ==
    /\ phase[s] # "unmounted"
    /\ phase' = [phase EXCEPT ![s] = "unmounted"]
    /\ listeners' = IF phase[s] = "mounted" THEN Cleanup(s) ELSE listeners
    /\ queue' = [queue EXCEPT ![s] = <<>>]
    /\ last' = Op("unmount", s, <<>>, <<>>, idx, Len(entries))
    /\ UNCHANGED <<entries, idx, hashTasks, gen, context, state, prevState, ops,
                   tree, output>>

\* A re-render: React applies the pending updates in the order they were
\* enqueued, and the hook returns the new context and state.
Render(s) ==
    /\ phase[s] # "unmounted"
    /\ queue[s] # <<>>
    /\ context' = [context EXCEPT ![s] = FlushContext(@, queue[s])]
    /\ state' = [state EXCEPT ![s] = FlushState(@, queue[s])]
    /\ queue' = [queue EXCEPT ![s] = <<>>]
    /\ UNCHANGED <<entries, idx, listeners, hashTasks, phase, gen, last,
                   prevState, ops, tree, output>>

----------------------------------------------------------------------------
(* The mutators.                                                           *)

\* history.pushState({}, '', url): the entries after the current one are
\* dropped and a new entry becomes the current one.  No event is fired.
HistoryPush(url) ==
    /\ entries' = Append(SubSeq(entries, 1, idx), url)
    /\ idx' = idx + 1

\* history.replaceState({}, '', url): the current entry's URL is overwritten.
\* No event is fired.
HistoryReplace(url) ==
    /\ entries' = [entries EXCEPT ![idx] = url]
    /\ idx' = idx

\* A variant of PushState without the setState call after history.pushState.
PushStateNoMerge(s, key, value) ==
    /\ phase[s] # "unmounted"
    /\ ops < MaxOps
    /\ Len(queue[s]) < MaxPending
    /\ HistoryPush(UrlWithParam(Href, key, value))
    /\ last' = Op("push", s, key, value, idx + 1, idx + 1)
    /\ prevState' = FlushState(state[s], queue[s])
    /\ ops' = ops + 1
    /\ UNCHANGED <<listeners, hashTasks, phase, gen, context, state, queue, tree,
                   output>>

\* pushState(key, value) of the hook
PushState(s, key, value) ==
    /\ phase[s] # "unmounted"
    /\ ops < MaxOps
    /\ Len(queue[s]) < MaxPending
    /\ HistoryPush(UrlWithParam(Href, key, value))
    /\ queue' = [queue EXCEPT ![s] = Append(@, MergeState(key, value))]
    /\ last' = Op("push", s, key, value, idx + 1, idx + 1)
    /\ prevState' = FlushState(state[s], queue[s])
    /\ ops' = ops + 1
    /\ UNCHANGED <<listeners, hashTasks, phase, gen, context, state, tree, output>>

\* replaceState(key, value) of the hook
ReplaceState(s, key, value) ==
    /\ phase[s] # "unmounted"
    /\ ops < MaxOps
    /\ Len(queue[s]) < MaxPending
    /\ HistoryReplace(UrlWithParam(Href, key, value))
    /\ queue' = [queue EXCEPT ![s] = Append(@, MergeState(key, value))]
    /\ last' = Op("replace", s, key, value, idx, Len(entries))
    /\ prevState' = FlushState(state[s], queue[s])
    /\ ops' = ops + 1
    /\ UNCHANGED <<listeners, hashTasks, phase, gen, context, state, tree, output>>

----------------------------------------------------------------------------
(* The browser: traversal, fragment navigation, event delivery.            *)

\* Back (d = -1) or forward (d = 1): the current entry changes, popstate is
\* dispatched, and a task firing hashchange is queued when the fragment of
\* the URL changed.
Traverse(d) ==
    /\ idx + d \in 1..Len(entries)
    /\ ops < MaxOps
    /\ Room(listeners.popstate)
    /\ LET changed == ParseURL(entries[idx + d]).fragment # ParseURL(Href).fragment
       IN  /\ changed => hashTasks < MaxHashTasks
           /\ hashTasks' = IF changed THEN hashTasks + 1 ELSE hashTasks
    /\ idx' = idx + d
    /\ queue' = Dispatch(listeners.popstate, entries[idx + d], queue)
    /\ last' = Op(IF d = 1 THEN "forward" ELSE "back", 0, <<>>, <<>>, idx + d,
               Len(entries))
    /\ ops' = ops + 1
    /\ UNCHANGED <<entries, listeners, phase, gen, context, state, prevState,
                   tree, output>>

\* The user navigates to another fragment of the same document (a link, the
\* address bar, location.hash = ...): a new entry with the same path and
\* query, and a queued hashchange.  Browsers differ on whether popstate is
\* dispatched as well (pop).
FragmentNavigate(f, pop) ==
    /\ f # ParseURL(Href).fragment
    /\ ops < MaxOps
    /\ hashTasks < MaxHashTasks
    /\ pop => Room(listeners.popstate)
    /\ LET url == SerializeURL([ParseURL(Href) EXCEPT !.hasFragment = TRUE,
                                                      !.fragment = f])
       IN  /\ HistoryPush(url)
           /\ queue' = IF pop THEN Dispatch(listeners.popstate, url, queue) ELSE queue
    /\ hashTasks' = hashTasks + 1
    /\ last' = Op("fragment", 0, <<>>, f, idx + 1, idx + 1)
    /\ ops' = ops + 1
    /\ UNCHANGED <<listeners, phase, gen, context, state, prevState, tree, output>>

\* A queued hashchange is fired: every hashchange listener runs.
FireHashChange ==
    /\ hashTasks > 0
    /\ Room(listeners.hashchange)
    /\ hashTasks' = hashTasks - 1
    /\ queue' = Dispatch(listeners.hashchange, Href, queue)
    /\ last' = [last EXCEPT !.fired = TRUE]
    /\ UNCHANGED <<entries, idx, listeners, phase, gen, context, state,
                   prevState, ops, tree, output>>

----------------------------------------------------------------------------
(* JavaScript values and React elements, for the Route component.  Every   *)
(* value is a record with a `kind`.                                        *)

Undefined == [kind |-> "undefined"]
Null == [kind |-> "null"]
Str(s) == [kind |-> "string", chars |-> s]
Num(n) == [kind |-> "number", n |-> n]
Array(items) == [kind |-> "array", items |-> items]
Fragment(children) == [kind |-> "fragment", children |-> children]

\* A React element: its type and the four props this model tracks (a prop
\* that is not given is undefined).
Element(type, depth, path, element, children) ==
    [kind |-> "element", type |-> type,
     props |-> [depth |-> depth, path |-> path, element |-> element,
                children |-> children]]

\* <Route depth path element>children</Route>
RouteElement(depth, path, element, children) ==
    Element("Route", depth, path, element, children)

\* <tag>children</tag>
HostElement(tag, children) == Element(tag, Undefined, Undefined, Undefined, children)

\* ToBoolean
Truthy(v) ==
    CASE v.kind \in {"undefined", "null"} -> FALSE
      [] v.kind = "string" -> Len(v.chars) > 0
      [] v.kind = "number" -> v.n # 0
      [] OTHER -> TRUE

\* React.isValidElement
IsValidElement(v) == v.kind = "element"

\* A variant of ContextAt that counts segments from 1.
ContextAtOneBased(ctx, depth) ==
    IF depth \in 1..Len(ctx) THEN Str(ctx[depth]) ELSE Undefined

\* context[depth]: undefined outside the array.
ContextAt(ctx, depth) ==
    IF depth + 1 \in 1..Len(ctx) THEN Str(ctx[depth + 1]) ELSE Undefined

\* React.cloneElement(child, { depth: d })
CloneWithDepth(child, d) == [child EXCEPT !.props.depth = Num(d)]

\* React.cloneElement(element, {}, children)
CloneWithChildren(element, children) == [element EXCEPT !.props.children = children]

\* A variant of InjectDepth that passes the parent's own depth on.
InjectSameDepth(child, depth) ==
    IF IsValidElement(child) /\ child.type = "Route"
    THEN CloneWithDepth(child, depth)
    ELSE child

\* A variant of InjectDepth that also reaches the Route elements inside the
\* children of an element that is not a Route.
RECURSIVE InjectDeep(_, _)
InjectDeep(child, depth) ==
    IF IsValidElement(child) /\ child.type = "Route"
    THEN CloneWithDepth(child, depth + 1)
    ELSE IF IsValidElement(child) /\ child.props.children.kind = "array"
    THEN CloneWithChildren(child,
            Array([i \in 1..Len(child.props.children.items) |->
                      InjectDeep(child.props.children.items[i], depth)]))
    ELSE child

\* injectDepth of a Route rendered at `depth`
InjectDepth(child, depth) ==
    IF IsValidElement(child) /\ child.type = "Route"
    THEN CloneWithDepth(child, depth + 1)
    ELSE child

\* React.Children.map(children, injectDepth)
ChildrenMap(children, depth) ==
    Array([i \in 1..Len(children.items) |-> InjectDepth(children.items[i], depth)])

\* The depth parameter of Route: the default 0 stands for an undefined prop.
DepthOf(props) == IF props.depth.kind = "undefined" THEN 0 ELSE props.depth.n

\* A variant of PathMissing with the check forgotten.
PathNeverMissing(props) == FALSE

\* `if (!path)`: the missing-path check, which warns.
PathMissing(props) == ~Truthy(props.path)

\* `if (context[depth] !== path)`: the segment comparison.
SegmentDiffers(props, ctx) == ContextAt(ctx, DepthOf(props)) # props.path

\* A variant of Compose that puts children given without an element inside
\* a <div>.
ComposeWrapped(element, children) ==
    IF Truthy(element) /\ Truthy(children) THEN CloneWithChildren(element, children)
    ELSE IF Truthy(element) THEN element
    ELSE IF Truthy(children) THEN HostElement("div", children)
    ELSE Null

\* The render logic of Route, given the depth-adjusted children.
Compose(element, children) ==
    IF Truthy(element) /\ Truthy(children) THEN CloneWithChildren(element, children)
    ELSE IF Truthy(element) THEN element
    ELSE IF Truthy(children) THEN Fragment(children)
    ELSE Null

\* Route(props) with the hook's current context: what the component returns.
Route(props, ctx) ==
    IF PathMissing(props) THEN Null
    ELSE IF SegmentDiffers(props, ctx) THEN Null
    ELSE Compose(props.element,
                 IF Truthy(props.children)
                 THEN ChildrenMap(props.children, DepthOf(props))
                 ELSE props.children)

\* What React makes of a returned value: the host nodes it renders to.
\* Route elements are rendered by calling Route; null and undefined render
\* to nothing; arrays and fragments render to their items, with no node of
\* their own.
RECURSIVE Rendered(_, _)
RenderedAll(items, ctx) ==
    Concat([i \in 1..Len(items) |-> Rendered(items[i], ctx)])
Rendered(v, ctx) ==
    CASE v.kind \in {"undefined", "null"} -> <<>>
      [] v.kind \in {"string", "number"} -> <<v>>
      [] v.kind = "array" -> RenderedAll(v.items, ctx)
      [] v.kind = "fragment" -> Rendered(v.children, ctx)
      [] v.kind = "element" ->
            IF v.type = "Route" THEN Rendered(Route(v.props, ctx), ctx)
            ELSE <<[tag |-> v.type, content |-> Rendered(v.props.children, ctx)]>>

\* The console.warn calls made while the value is rendered.
RECURSIVE Warnings(_, _)
WarningsAll(items, ctx) ==
    Concat([i \in 1..Len(items) |-> Warnings(items[i], ctx)])
Warnings(v, ctx) ==
    CASE v.kind = "array" -> WarningsAll(v.items, ctx)
      [] v.kind = "fragment" -> Warnings(v.children, ctx)
      [] v.kind = "element" ->
            IF v.type = "Route"
            THEN (IF PathMissing(v.props) THEN <<"Route component requires a path prop">>
                  ELSE <<>>) \o Warnings(Route(v.props, ctx), ctx)
            ELSE Warnings(v.props.children, ctx)
      [] OTHER -> <<>>

\* The application renders its tree with the Route of store s: Route reads
\* the context the hook returned in the store's last render.
RenderTree(s) ==
    /\ phase[s] # "unmounted"
    /\ output' = [nodes |-> Rendered(tree, context[s]),
                  warnings |-> Warnings(tree, context[s]),
                  context |-> context[s]]
    /\ UNCHANGED <<entries, idx, listeners, hashTasks, phase, gen, context, state,
                   queue, last, prevState, ops, tree>>

----------------------------------------------------------------------------
(* The specification of one store on a page.                               *)

\* The (name, value) pairs the application passes to the mutators.
Params == { << <<"a">>, <<"1">> >>, << <<"a">>, <<"&">> >>, <<ProtoKey, <<"&">> >> }

\* Fragments the user navigates to.
Fragments == { <<"/", "a">> }

\* The URL the page is opened at.
InitialURLs ==
    { <<"p">>,
      <<"p", "?", "a", "=", "2", "&", "_", "_", "p", "r", "o", "t", "o", "_", "_",
        "=", "1", "#", "/", "b">> }

InitAt(url, t) ==
    /\ entries = <<url>>
    /\ idx = 1
    /\ listeners = [hashchange |-> <<>>, popstate |-> <<>>]
    /\ hashTasks = 0
    /\ phase = [s \in Stores |-> "unmounted"]
    /\ gen = [s \in Stores |-> 0]
    /\ context = [s \in Stores |-> <<>>]
    /\ state = [s \in Stores |-> EmptyObject]
    /\ queue = [s \in Stores |-> <<>>]
    /\ last = [op |-> "init", store |-> 0, key |-> <<>>, value |-> <<>>,
               at |-> 1, len |-> 1, prev |-> "init", prevAt |-> 1, prevLen |-> 1,
               fired |-> FALSE]
    /\ prevState = EmptyObject
    /\ ops = 0
    /\ tree = t
    /\ output = [nodes |-> <<>>, warnings |-> <<>>, context |-> <<>>]

Init == \E url \in InitialURLs : InitAt(url, Undefined)

StoreStep(s) ==
    \/ MountRender(s)
    \/ MountEffect(s)
    \/ Unmount(s)
    \/ Render(s)
    \/ \E kv \in Params : PushState(s, kv[1], kv[2])
    \/ \E kv \in Params : ReplaceState(s, kv[1], kv[2])

BrowserStep ==
    \/ Traverse(-1)
    \/ Traverse(1)
    \/ \E f \in Fragments, pop \in BOOLEAN : FragmentNavigate(f, pop)
    \/ FireHashChange

Next == StoreStep(1) \/ BrowserStep

Spec == Init /\ [][Next]_vars

----------------------------------------------------------------------------
(* The specifications of a page opened at any URL of a bounded set: the    *)
(* store mounts and recomputes (SpecParse), and the application renders    *)
(* trees of Route elements against the segments (SpecRoute).               *)

RECURSIVE SeqsUpTo(_, _)
SeqsUpTo(A, n) ==
    IF n = 0 THEN {<<>>}
    ELSE LET S == SeqsUpTo(A, n - 1)
         IN  S \cup {Append(x, a) : x \in S, a \in A}

Page == <<"p">>
Users == <<"u", "s", "e", "r", "s">>
FortyTwo == <<"4", "2">>
NinetyNine == <<"9", "9">>
TabProfile == <<"t", "a", "b", "=", "p", "r", "o", "f", "i", "l", "e">>

\* .../page#/users/42?tab=profile
QueryAfterHashURL ==
    Page \o <<"#", "/">> \o Users \o <<"/">> \o FortyTwo \o <<"?">> \o TabProfile

\* .../page?tab=profile#/users/42
QueryBeforeHashURL ==
    Page \o <<"?">> \o TabProfile \o <<"#", "/">> \o Users \o <<"/">> \o FortyTwo

\* "/" before each segment: the fragment of a route with these segments.
RECURSIVE JoinPath(_)
JoinPath(ps) ==
    IF Len(ps) = 0 THEN <<>> ELSE <<"/">> \o Head(ps) \o JoinPath(Tail(ps))

\* The segment sequences the chains of matchers are tried against.
ChainPaths == SeqsUpTo({<<"a">>, <<"b">>}, MaxChain) \ {<<>>}

FragmentURLs ==
    {Page} \cup {Page \o <<"#">> \o f : f \in SeqsUpTo({"/", "a", "b"}, MaxUrlLen)}
           \cup {Page \o <<"#">> \o JoinPath(ps) : ps \in ChainPaths}
           \cup {Page \o <<"#", "/", "a", "/", "b", "/", "c">>}

QueryURLs ==
    {Page \o <<"?">> \o q : q \in SeqsUpTo({"a", "b", "=", "&"}, MaxUrlLen)}
        \cup {Page \o <<"?", "x", "=", "1", "&", "y", "=", "2">>,
              Page \o <<"?", "a", "=", "b", "&", "a", "=", "&", "b">>,
              Page \o <<"?", "a", "=", "%", "2", "6", "+", "&", "a", "=", "%", "z">>,
              Page \o <<"?">> \o ProtoKey \o <<"=", "1">>,
              Page \o <<"?", "#", "?", "a">>}

ScenarioURLs == {QueryAfterHashURL, QueryBeforeHashURL}

Marker(label) == HostElement("span", Array(<<Str(label)>>))

PathProps == {Undefined, Str(<<>>), Str(<<"a">>), Str(<<"b">>)}
DepthProps == {Undefined} \cup {Num(d) : d \in 0..MaxDepth}
ElementProps == {Undefined, HostElement("div", Undefined)}
ChildrenProps == {Undefined, Array(<<Str(<<"t">>), Marker(<<"x">>)>>)}

\* A single Route, used at top level.
SingleRoutes ==
    {RouteElement(d, p, e, c) :
        d \in DepthProps, p \in PathProps, e \in ElementProps, c \in ChildrenProps}

\* Routes nested directly inside one another, one per path; the content of
\* the innermost one is a marker.  The author gives the nested routes the
\* depth prop `authored`, and each level a wrapper element when `wrapped`.
RECURSIVE Chain(_, _, _, _)
Chain(paths, authored, wrapped, top) ==
    RouteElement(IF top THEN Undefined ELSE authored,
                 Str(Head(paths)),
                 IF wrapped THEN HostElement("div", Undefined) ELSE Undefined,
                 Array(<<IF Len(paths) = 1 THEN Marker(<<"x">>)
                         ELSE Chain(Tail(paths), authored, wrapped, FALSE)>>))

Chains ==
    {Chain(ps, a, w, TRUE) : ps \in ChainPaths, a \in {Undefined, Num(0)}, w \in BOOLEAN}

\* <Route path="users"><Route path="42">..</Route><Route path="99">..</Route></Route>
ScenarioTree ==
    RouteElement(Undefined, Str(Users), Undefined,
        Array(<<RouteElement(Undefined, Str(FortyTwo), Undefined,
                             Array(<<Marker(FortyTwo)>>)),
                RouteElement(Undefined, Str(NinetyNine), Undefined,
                             Array(<<Marker(NinetyNine)>>))>>))

\* <Route depth={d} path="a">
\*   <div><Route path={p}>i</Route></div>
\*   <Route depth={authored} path={q}>n</Route>
\*   t
\* </Route>
InjectTree(d, p, q, authored) ==
    RouteElement(d, Str(<<"a">>), Undefined,
        Array(<<HostElement("div",
                    Array(<<RouteElement(Undefined, Str(p), Undefined,
                                         Array(<<Marker(<<"i">>)>>))>>)),
                RouteElement(authored, Str(q), Undefined,
                             Array(<<Marker(<<"n">>)>>)),
                Str(<<"t">>)>>))

InjectTrees ==
    {InjectTree(d, p, q, au) :
        d \in {Undefined, Num(1)}, p \in {<<"a">>, <<"b">>}, q \in {<<"a">>, <<"b">>},
        au \in {Undefined, Num(0), Num(MaxDepth)}}

\* An element with content of its own: <div><span>o</span></div>
Wrapper == HostElement("div", Array(<<Marker(<<"o">>)>>))

\* Children holding a text and a matcher authored with depth 0.
TextAndRoute ==
    Array(<<Str(<<"t">>),
            RouteElement(Num(0), Str(<<"b">>), Undefined, Array(<<Marker(<<"x">>)>>))>>)

\* <Route path="a" element={e}>{c}</Route>
ComposeTree(e, c) == RouteElement(Undefined, Str(<<"a">>), e, c)

ComposeTrees ==
    {ComposeTree(e, c) :
        e \in {Undefined, Wrapper}, c \in {Undefined, Array(<<>>), TextAndRoute}}

Trees ==
    SingleRoutes \cup Chains \cup {ScenarioTree} \cup InjectTrees \cup ComposeTrees

InitParse ==
    \E url \in FragmentURLs \cup QueryURLs \cup ScenarioURLs : InitAt(url, Undefined)

NextParse == MountRender(1) \/ MountEffect(1) \/ Render(1)

SpecParse == InitParse /\ [][NextParse]_vars

\* .../page?__proto__=1#/a
ProtoQueryURL == Page \o <<"?">> \o ProtoKey \o <<"=", "1", "#", "/", "a">>

InitRoute ==
    \E url \in FragmentURLs \cup ScenarioURLs \cup {ProtoQueryURL}, t \in Trees :
        InitAt(url, t)

NextRoute ==
    \/ MountRender(1)
    \/ MountEffect(1)
    \/ Render(1)
    \/ RenderTree(1)

SpecRoute == InitRoute /\ [][NextRoute]_vars

----------------------------------------------------------------------------
(* The specification of two components of one page, each calling the hook: *)
(* each call has its own useState pair and its own listeners, and both     *)
(* read and write the one window.location and history.                     *)

InitTwo == InitAt(Page, Undefined)

NextTwo ==
    \/ \E s \in Stores : MountRender(s)
    \/ \E s \in Stores : MountEffect(s)
    \/ \E s \in Stores : Render(s)
    \/ \E s \in Stores, kv \in Params : PushState(s, kv[1], kv[2])
    \/ \E s \in Stores, kv \in Params : ReplaceState(s, kv[1], kv[2])
    \/ Traverse(-1)

SpecTwo == InitTwo /\ [][NextTwo]_vars

----------------------------------------------------------------------------
(* The specification of a store whose page is opened at a URL that already *)
(* carries parameters and a route, and whose mutators are then called.     *)

FrameURLs ==
    { Page,
      Page \o <<"?", "x", "=", "1", "#", "/", "a">>,
      Page \o <<"?", "a", "=", "b", "&", "a", "=", "&", "b", "#", "/", "a", "/", "b">>,
      Page \o <<"?", "a", "=", "%", "2", "6", "+", "&", "&", "=", "1", "#">> }

\* The (name, value) pairs passed to the mutators on these pages.
FrameParams == { << <<"a">>, <<"&">> >>, <<ProtoKey, <<"1">> >> }

InitFrame == \E url \in FrameURLs : InitAt(url, Undefined)

NextFrame ==
    \/ MountRender(1)
    \/ MountEffect(1)
    \/ Render(1)
    \/ \E kv \in FrameParams : PushState(1, kv[1], kv[2])
    \/ \E kv \in FrameParams : ReplaceState(1, kv[1], kv[2])

SpecFrame == InitFrame /\ [][NextFrame]_vars

----------------------------------------------------------------------------
(* What the claims speak of, stated without the hook's own code.           *)

\* The positions of s that hold a character other than c.
Others(s, c) == {i \in 1..Len(s) : s[i] # c}

\* The maximal runs of characters other than c in s, as (first, last) pairs:
\* a run starts after a c or at the start of s, and ends before the next c
\* or at the end of s.
Runs(s, c) ==
    {<<i, CHOOSE j \in i..Len(s) :
                /\ (j = Len(s) \/ s[j + 1] = c)
                /\ \A m \in i..j : s[m] # c>> :
        i \in {x \in Others(s, c) : x = 1 \/ s[x - 1] = c}}

\* The runs in the order they occur.
RECURSIVE InOrder(_)
InOrder(runs) ==
    IF runs = {} THEN <<>>
    ELSE LET r == CHOOSE x \in runs : \A y \in runs : x[1] <= y[1]
         IN  <<r>> \o InOrder(runs \ {r})

\* The non-empty tokens of s between the separators c, in order.
Tokens(s, c) ==
    LET rs == InOrder(Runs(s, c))
    IN  [i \in 1..Len(rs) |-> SubSeq(s, rs[i][1], rs[i][2])]

\* The text of the URL after the first "#", and its query string.
FragmentText(href) == ParseURL(href).fragment
QueryText(href) == ParseURL(href).query

PairName(p) ==
    IF IndexOf(p, "=") = 0 THEN Decode(p) ELSE Decode(SubSeq(p, 1, IndexOf(p, "=") - 1))
PairValue(p) ==
    IF IndexOf(p, "=") = 0 THEN <<>> ELSE Decode(SubSeq(p, IndexOf(p, "=") + 1, Len(p)))

\* The map decoded from a query string: its keys are the names of the
\* "&"-separated pairs, and a key's value is that of the last pair so named.
DecodedMap(q) ==
    LET ps == Tokens(q, "&")
        LastOf(k) == CHOOSE i \in 1..Len(ps) :
                        /\ PairName(ps[i]) = k
                        /\ \A j \in (i + 1)..Len(ps) : PairName(ps[j]) # k
    IN  [k \in {PairName(ps[i]) : i \in 1..Len(ps)} |-> PairValue(ps[LastOf(k)])]

\* Store s is mounted and nothing is pending: every listener that was
\* triggered has run and every state update has been rendered.
Settled(s) == phase[s] = "mounted" /\ queue[s] = <<>> /\ hashTasks = 0

----------------------------------------------------------------------------
(* C1: for a single mounted store, once every operation, listener and      *)
(* state update has been applied, segments is the sequence of non-empty    *)
(* "/"-separated tokens of the URL fragment and parameters is the map      *)
(* decoded from the URL query string; and after pushParameter or           *)
(* replaceParameter a further recompute would leave parameters unchanged.  *)
C1_Converged ==
    /\ Settled(1) =>
          /\ context[1] = Tokens(FragmentText(Href), "/")
          /\ state[1] = DecodedMap(QueryText(Href))
    /\ (phase[1] = "mounted" /\ queue[1] = <<>> /\ last.op \in {"push", "replace"}) =>
          FlushState(state[1], HandleHashChange(Href)) = state[1]

----------------------------------------------------------------------------
----------------------------------------------------------------------------
(* C3: pushParameter(k, v) appends one history entry after the current     *)
(* one, carrying the current URL with k set to v; and a back-navigation    *)
(* that follows it restores the whole parameter map to what it was         *)
(* immediately before the pushParameter call.                              *)
C3_PushThenBack ==
    /\ last.op = "push" =>
          /\ idx = last.prevAt + 1
          /\ Len(entries) = idx
          /\ FragmentText(entries[idx]) = FragmentText(entries[idx - 1])
          /\ last.key \in DOMAIN DecodedMap(QueryText(entries[idx]))
          /\ DecodedMap(QueryText(entries[idx]))[last.key] = last.value
    /\ (last.op = "back" /\ last.prev = "push" /\ Settled(1)) =>
          state[1] = prevState

----------------------------------------------------------------------------
(* C4: replaceParameter(k, v) changes neither the number of history        *)
(* entries nor the position of the current one; a back-navigation after it *)
(* lands on the entry before the replaced one, and parameters is then the  *)
(* map decoded from that entry's query string.                             *)
C4_ReplaceThenBack ==
    /\ last.op = "replace" =>
          /\ idx = last.prevAt
          /\ Len(entries) = last.prevLen
    /\ (last.op = "back" /\ last.prev = "replace") =>
          /\ idx = last.prevAt - 1
          /\ Settled(1) => state[1] = DecodedMap(QueryText(entries[idx]))

----------------------------------------------------------------------------
TabKey == <<"t", "a", "b">>
Profile == <<"p", "r", "o", "f", "i", "l", "e">>

\* What a marker renders to.
MarkerNode(label) == [tag |-> "span", content |-> <<Str(label)>>]

Range(seq) == {seq[i] : i \in 1..Len(seq)}

(* C5 as claimed: for .../page#/users/42?tab=profile recompute yields      *)
(* segments ["users","42"] and parameters {tab: "profile"}, and of the     *)
(* matchers "users" > ("42", "99") exactly "users" and "42" match.         *)
C5_QueryAfterHash ==
    (Href = QueryAfterHashURL /\ Settled(1)) =>
        /\ context[1] = <<Users, FortyTwo>>
        /\ state[1] = [k \in {TabKey} |-> Profile]
        /\ (tree = ScenarioTree /\ output.context = context[1]) =>
              output.nodes = <<MarkerNode(FortyTwo)>>

(* C5 as amended: those segments, parameters and matches are what          *)
(* recompute yields for .../page?tab=profile#/users/42, the query string   *)
(* written before the "#"; for .../page#/users/42?tab=profile the segments *)
(* are ["users", "42?tab=profile"] and parameters is empty, so "users"     *)
(* matches and neither "42" nor "99" does.                                 *)
C5_QueryBeforeHash ==
    /\ (Href = QueryBeforeHashURL /\ Settled(1)) =>
          /\ context[1] = <<Users, FortyTwo>>
          /\ state[1] = [k \in {TabKey} |-> Profile]
          /\ (tree = ScenarioTree /\ output.context = context[1]) =>
                output.nodes = <<MarkerNode(FortyTwo)>>
    /\ (Href = QueryAfterHashURL /\ Settled(1)) =>
          /\ context[1] = <<Users, FortyTwo \o <<"?">> \o TabProfile>>
          /\ state[1] = EmptyObject
          /\ (tree = ScenarioTree /\ output.context = context[1]) =>
                output.nodes = <<>>

\* The scenario tree has been rendered for the URL with the query first.
C5_Witness ==
    /\ Href = QueryBeforeHashURL
    /\ Settled(1)
    /\ tree = ScenarioTree
    /\ output.context = <<Users, FortyTwo>>
    /\ output.nodes = <<MarkerNode(FortyTwo)>>

----------------------------------------------------------------------------
(* C6: for every URL fragment, recompute sets segments to the non-empty    *)
(* tokens of the text after "#" split on "/", in order: "#/a/b/c" gives    *)
(* ["a","b","c"], repeated or trailing slashes add nothing, "#" or no      *)
(* fragment gives the empty sequence, and no segment is the empty string.  *)
C6_Segments ==
    (phase[1] = "mounted" /\ queue[1] = <<>>) =>
        /\ context[1] = Tokens(FragmentText(Href), "/")
        /\ \A i \in 1..Len(context[1]) : context[1][i] # <<>>
        /\ FragmentText(Href) = <<"/", "a", "/", "b", "/", "c">> =>
              context[1] = << <<"a">>, <<"b">>, <<"c">> >>
        /\ FragmentText(Href) = <<>> => context[1] = <<>>

\* A fragment with repeated and trailing slashes has been recomputed.
C6_Witness ==
    /\ phase[1] = "mounted"
    /\ queue[1] = <<>>
    /\ FragmentText(Href) = <<"/", "/", "a", "/">>
    /\ context[1] = << <<"a">> >>

----------------------------------------------------------------------------
(* C7: for every query string, recompute sets parameters to the map whose  *)
(* keys are the keys of the "&"-separated pairs and whose values are those *)
(* of the last pair with each key; "?x=1&y=2" gives {x: "1", y: "2"}, and  *)
(* an absent or empty query string gives the empty map.                    *)
C7_Parameters ==
    (phase[1] = "mounted" /\ queue[1] = <<>>) =>
        /\ state[1] = DecodedMap(QueryText(Href))
        /\ QueryText(Href) = <<>> => state[1] = EmptyObject

----------------------------------------------------------------------------
(* C8: a matcher with a path renders content only if segments[depth] is    *)
(* its path; when it is, the matcher renders its element and children if   *)
(* it has any; at a depth that is not less than the number of segments it  *)
(* renders nothing.                                                        *)
C8_MatchRule ==
    (tree \in SingleRoutes /\ Truthy(tree.props.path)) =>
        LET props == tree.props
            d == IF props.depth = Undefined THEN 0 ELSE props.depth.n
            ctx == output.context
            matches == d + 1 <= Len(ctx) /\ ctx[d + 1] = props.path.chars
            hasElement == props.element # Undefined
            hasChildren == props.children # Undefined
        IN  /\ output.nodes # <<>> => matches
            /\ (matches /\ hasElement) =>
                  /\ Len(output.nodes) = 1
                  /\ output.nodes[1].tag = "div"
                  /\ hasChildren =>
                        MarkerNode(<<"x">>) \in Range(output.nodes[1].content)
            /\ (matches /\ ~hasElement /\ hasChildren) =>
                  MarkerNode(<<"x">>) \in Range(output.nodes)
            /\ d >= Len(ctx) => output.nodes = <<>>

\* A matcher at depth 1 has matched the second segment and rendered.
C8_Witness ==
    /\ tree \in SingleRoutes
    /\ tree.props.depth = Num(1)
    /\ tree.props.path = Str(<<"b">>)
    /\ output.context = << <<"a">>, <<"b">> >>
    /\ output.nodes # <<>>

----------------------------------------------------------------------------
\* How many leading matchers of a chain match their segment.
Matched(paths, ctx) ==
    CHOOSE k \in 0..Len(paths) :
        /\ \A i \in 1..k : i <= Len(ctx) /\ ctx[i] = paths[i]
        /\ k < Len(paths) => ~(k + 1 <= Len(ctx) /\ ctx[k + 1] = paths[k + 1])

\* k wrappers nested in one another, the innermost holding `content`.
RECURSIVE Nested(_, _)
Nested(k, content) ==
    IF k = 0 THEN <<>>
    ELSE <<[tag |-> "div",
            content |-> IF k = 1 THEN content ELSE Nested(k - 1, content)]>>

\* The paths of the Route elements nested in one another as first children.
RECURSIVE ChainPathsOf(_)
ChainPathsOf(t) ==
    IF t.kind = "element" /\ t.type = "Route" /\ t.props.path.kind = "string"
    THEN <<t.props.path.chars>>
         \o (IF t.props.children.kind = "array" /\ Len(t.props.children.items) > 0
             THEN ChainPathsOf(t.props.children.items[1])
             ELSE <<>>)
    ELSE <<>>

(* C9: in a chain of matchers nested directly inside one another with      *)
(* paths p0..pn, matcher i is evaluated at depth i: the innermost content  *)
(* is rendered iff segments[i] = pi for every i, and a mismatch at level i *)
(* suppresses everything nested below level i.                             *)
C9_Chain ==
    \A a \in {Undefined, Num(0)}, w \in BOOLEAN :
        LET ps == ChainPathsOf(tree)
        IN  (ps \in ChainPaths /\ tree = Chain(ps, a, w, TRUE)) =>
                LET k == Matched(ps, output.context)
                    inner == IF k = Len(ps) THEN <<MarkerNode(<<"x">>)>> ELSE <<>>
                IN  output.nodes = IF w THEN Nested(k, inner) ELSE inner

\* A chain of three matchers has rendered its innermost content.
C9_Witness ==
    /\ tree = Chain(<< <<"a">>, <<"b">>, <<"a">> >>, Num(0), FALSE, TRUE)
    /\ output.context = << <<"a">>, <<"b">>, <<"a">> >>
    /\ output.nodes = <<MarkerNode(<<"x">>)>>

----------------------------------------------------------------------------
\* The listeners of store s in a listener list.
Attached(list, s) == {i \in 1..Len(list) : list[i][1] = s}

(* C10: across mount/unmount cycles, for each event class the store has    *)
(* exactly one listener attached while it is mounted, the one its mount    *)
(* attached, and none after it is unmounted; one event causes at most one  *)
(* recompute of the store; and no event delivered after the unmount        *)
(* changes the store's state.                                              *)
C10_Listeners ==
    /\ [](\A list \in {listeners.hashchange, listeners.popstate} :
            /\ phase[1] = "mounted" =>
                  /\ Cardinality(Attached(list, 1)) = 1
                  /\ \A i \in Attached(list, 1) : list[i] = <<1, gen[1]>>
            /\ phase[1] # "mounted" => Attached(list, 1) = {})
    /\ [][/\ Len(queue'[1]) <= Len(queue[1]) + 2
          /\ (phase[1] = "unmounted" /\ phase'[1] = "unmounted") =>
                /\ context'[1] = context[1]
                /\ state'[1] = state[1]
                /\ queue'[1] = queue[1]]_vars

\* The store was mounted, unmounted, and a back-navigation was delivered.
C10_Witness ==
    /\ phase[1] = "unmounted"
    /\ gen[1] = 1
    /\ last.op = "back"
    /\ last.prev = "unmount"
    /\ listeners.popstate = <<>>
    /\ state[1] # EmptyObject

----------------------------------------------------------------------------
\* The message of Route's console.warn.
PathWarning == "Route component requires a path prop"

\* The tree is one matcher that was given no path.
NoPath == tree \in SingleRoutes /\ tree.props.path = Undefined

(* C11: a matcher with no path renders nothing, whatever its depth,        *)
(* element and children and whatever the segments; each render of it logs  *)
(* one warning, also when the segment at its depth would have decided the  *)
(* render by itself (the missing-path check comes first).                  *)
C11_NoPath ==
    /\ [](NoPath => /\ output.nodes = <<>>
                     /\ output.warnings \in {<<>>, <<PathWarning>>})
    /\ [][(NoPath /\ output' # output) =>
              /\ output'.nodes = <<>>
              /\ output'.warnings = <<PathWarning>>]_vars

\* A matcher without a path, with an element and children, was rendered at
\* a depth where a segment exists.
C11_Witness ==
    /\ NoPath
    /\ tree.props.depth = Num(1)
    /\ tree.props.element # Undefined
    /\ tree.props.children # Undefined
    /\ output.context = << <<"a">>, <<"b">> >>
    /\ output.warnings = <<PathWarning>>
    /\ output.nodes = <<>>

----------------------------------------------------------------------------
\* The last two things store s did were two recomputes of the current URL,
\* neither rendered yet.
TwoRecomputes(s) ==
    /\ phase[s] = "mounted"
    /\ Len(queue[s]) >= 4
    /\ \A i \in {0, 2} :
          LET c == queue[s][Len(queue[s]) - 1 - i]
              p == queue[s][Len(queue[s]) - i]
          IN  /\ c.hook = "context"
              /\ c.value = RouteSegments(Href)
              /\ p.hook = "state"
              /\ p.kind = "set"
              /\ p.value = QueryState(Href)

(* C12: from any state of a mounted store, a recompute followed at once by *)
(* a second recompute leaves segments and parameters as the first one left *)
(* them; and whenever the store did make two recomputes in succession, the *)
(* values with both applied are the values with only the first applied.    *)
C12_Idempotent ==
    phase[1] = "mounted" =>
        LET once == queue[1] \o HandleHashChange(Href)
            twice == once \o HandleHashChange(Href)
            first == SubSeq(queue[1], 1, Len(queue[1]) - 2)
        IN  /\ FlushContext(context[1], twice) = FlushContext(context[1], once)
            /\ FlushState(state[1], twice) = FlushState(state[1], once)
            /\ TwoRecomputes(1) =>
                  /\ FlushContext(context[1], queue[1]) = FlushContext(context[1], first)
                  /\ FlushState(state[1], queue[1]) = FlushState(state[1], first)

\* Two listeners ran in succession (popstate, then hashchange) while the
\* store held segments and parameters other than those of the URL.
C12_Witness ==
    /\ TwoRecomputes(1)
    /\ last.fired
    /\ context[1] # RouteSegments(Href)
    /\ state[1] # EmptyObject
    /\ state[1] # QueryState(Href)

----------------------------------------------------------------------------
(* C13: with two stores mounted on the page, after pushParameter or        *)
(* replaceParameter is called through one of them, with no navigation      *)
(* event since and every state update rendered, the parameters of both     *)
(* stores are the map decoded from the URL query string.                   *)
C13_BothStores ==
    (/\ last.op \in {"push", "replace"}
     /\ \A s \in Stores : phase[s] = "mounted" /\ queue[s] = <<>>) =>
        \A s \in Stores : state[s] = DecodedMap(QueryText(Href))

----------------------------------------------------------------------------
\* Map `after` is map `before` with key k set to v and nothing else changed.
OnlySet(before, after, k, v) ==
    /\ DOMAIN after = DOMAIN before \cup {k}
    /\ after[k] = v
    /\ \A x \in DOMAIN before \ {k} : after[x] = before[x]

(* C14: a call of pushParameter(k, v) or replaceParameter(k, v) changes    *)
(* neither segments (held or pending) nor the URL fragment; in the         *)
(* parameter map the store holds once its updates are applied, and in the  *)
(* map decoded from the URL query string, k becomes v and every other key  *)
(* keeps its presence and its value.                                       *)
C14_Frame ==
    [][(ops' = ops + 1 /\ last'.op \in {"push", "replace"}) =>
          LET s == last'.store
              held == FlushState(state[s], queue[s])
              heldAfter == FlushState(state'[s], queue'[s])
              inURL == DecodedMap(QueryText(Href))
              inURLAfter == DecodedMap(QueryText(Href'))
          IN  /\ context'[s] = context[s]
              /\ FlushContext(context'[s], queue'[s])
                    = FlushContext(context[s], queue[s])
              /\ FragmentText(Href') = FragmentText(Href)
              /\ OnlySet(held, heldAfter, last'.key, last'.value)
              /\ OnlySet(inURL, inURLAfter, last'.key, last'.value)]_vars

\* On a page with a repeated key, a key without value and a route, the
\* repeated key was replaced and the update rendered.
C14_Witness ==
    /\ last.op = "replace"
    /\ last.key = <<"a">>
    /\ phase[1] = "mounted"
    /\ queue[1] = <<>>
    /\ context[1] = << <<"a">>, <<"b">> >>
    /\ FragmentText(Href) = <<"/", "a", "/", "b">>
    /\ state[1] = [x \in {<<"a">>, <<"b">>} |-> IF x = <<"a">> THEN last.value ELSE <<>>]
    /\ DecodedMap(QueryText(Href)) = state[1]

----------------------------------------------------------------------------
\* Segment i (counted from 0) exists and is p.
SegmentIs(ctx, i, p) == i + 1 <= Len(ctx) /\ ctx[i + 1] = p

(* C15: a matching matcher at depth d gives depth d + 1 to each immediate  *)
(* child that is a matcher, whatever depth the author wrote on it; a child *)
(* that is not a matcher is rendered as it is, and a matcher inside such a *)
(* child is evaluated at its default depth 0.                              *)
C15_Injection ==
    \A d \in {Undefined, Num(1)}, p \in {<<"a">>, <<"b">>}, q \in {<<"a">>, <<"b">>},
       au \in {Undefined, Num(0), Num(MaxDepth)} :
        tree = InjectTree(d, p, q, au) =>
            LET ctx == output.context
                at == IF d = Undefined THEN 0 ELSE d.n
                inner == IF SegmentIs(ctx, 0, p) THEN <<MarkerNode(<<"i">>)>> ELSE <<>>
                direct == IF SegmentIs(ctx, at + 1, q) THEN <<MarkerNode(<<"n">>)>> ELSE <<>>
            IN  output.nodes =
                    IF SegmentIs(ctx, at, <<"a">>)
                    THEN <<[tag |-> "div", content |-> inner]>> \o direct
                            \o <<Str(<<"t">>)>>
                    ELSE <<>>

\* A matcher at depth 1 matched; its matcher child, authored with depth 0,
\* matched segment 2 and not segment 0, and the matcher inside its <div>
\* matched segment 0 and not segment 2.
C15_Witness ==
    /\ tree = InjectTree(Num(1), <<"b">>, <<"a">>, Num(0))
    /\ output.context = << <<"b">>, <<"a">>, <<"a">> >>
    /\ output.nodes = <<[tag |-> "div", content |-> <<MarkerNode(<<"i">>)>>],
                        MarkerNode(<<"n">>), Str(<<"t">>)>>

----------------------------------------------------------------------------
(* C16: a matcher whose path is the segment at its depth renders: with an  *)
(* element and children, the element holding the depth-adjusted children   *)
(* and nothing else; with an element only, the element as it was given;    *)
(* with children only, the depth-adjusted children and no node around      *)
(* them; with neither, nothing.                                            *)
C16_Composition ==
    \A e \in {Undefined, Wrapper}, c \in {Undefined, Array(<<>>), TextAndRoute} :
        (tree = ComposeTree(e, c) /\ SegmentIs(output.context, 0, <<"a">>)) =>
            LET adjusted ==
                    IF c # TextAndRoute THEN <<>>
                    ELSE <<Str(<<"t">>)>>
                         \o (IF SegmentIs(output.context, 1, <<"b">>)
                             THEN <<MarkerNode(<<"x">>)>> ELSE <<>>)
            IN  output.nodes =
                    CASE e # Undefined /\ c # Undefined ->
                            <<[tag |-> "div", content |-> adjusted]>>
                      [] e # Undefined /\ c = Undefined ->
                            <<[tag |-> "div", content |-> <<MarkerNode(<<"o">>)>>]>>
                      [] e = Undefined /\ c # Undefined -> adjusted
                      [] OTHER -> <<>>

\* A matcher with an element and children matched, and so did the matcher
\* among its children.
C16_Witness ==
    /\ tree = ComposeTree(Wrapper, TextAndRoute)
    /\ output.context = << <<"a">>, <<"b">> >>
    /\ output.nodes =
          <<[tag |-> "div", content |-> <<Str(<<"t">>), MarkerNode(<<"x">>)>>]>>

----------------------------------------------------------------------------
\* The store has rendered for the first time and its mount-time recompute
\* has not been applied: the effect has not run, or the two updates it
\* enqueued are still pending.
BeforeRecompute(s) ==
    \/ phase[s] = "rendered"
    \/ phase[s] = "mounted" /\ queue[s] = HandleHashChange(Href) /\ ops = 0

(* C17: segments is always a sequence and parameters always a map; until   *)
(* the mount-time recompute is applied both are empty whatever the URL,    *)
(* and what the application rendered is nothing; once it is applied, with  *)
(* no navigation event, segments is the sequence of tokens of the URL      *)
(* fragment and parameters the map decoded from the URL query string.      *)
C17_MountRecompute ==
    /\ DOMAIN context[1] = 1..Len(context[1])
    /\ state[1] = [k \in DOMAIN state[1] |-> state[1][k]]
    /\ BeforeRecompute(1) =>
          /\ context[1] = <<>>
          /\ state[1] = EmptyObject
          /\ output.nodes = <<>>
    /\ (phase[1] = "mounted" /\ queue[1] = <<>> /\ ops = 0) =>
          /\ context[1] = Tokens(FragmentText(Href), "/")
          /\ state[1] = DecodedMap(QueryText(Href))

====
